---- MODULE Spec2Model ----
(***************************************************************************)
(* Model of the two-step statistics challenge service (src/app.py):        *)
(* step1_get_challenge issues a random dataset under a fresh secret key,   *)
(* step2_submit_statistics validates submitted statistics against the      *)
(* stored ground truth under an attempt limit.                             *)
(*                                                                         *)
(* Numbers.  A Python float near a dataset statistic is modelled as the    *)
(* pair (w, e) standing for  w/Den + e*1e-10 : w counts units of 1/Den,    *)
(* with Den = lcm(1..15) so that every mean and median of a dataset of     *)
(* 5..15 integers is exact, and e counts units of 1e-10, the scale on      *)
(* which math.isclose's tolerances (1e-9) act.                             *)
(***************************************************************************)
EXTENDS Integers, Sequences, FiniteSets, TLC

\* ------------------------------------------------------------------ bounds
\* number of secret keys uuid4 draws in the single-challenge runs
NumKeys == 1
\* number of secret keys uuid4 draws in the runs with several challenges
NumChallenges == 2
\* submissions made to one key in the runs with several challenges
MaxShared == 2
\* submissions made to one key beyond MAX_STEP2_ATTEMPTS before the model stops
MaxExtra == 2
\* concurrent request threads
NumThreads == 2
\* inputs of calculate_statistics taken alone: lists of at most MaxSampleLen
\* integers between -MaxSampleValue and MaxSampleValue
MaxSampleLen == 5
MaxSampleValue == 2

\* ------------------------------------------------------- program constants
MAX_STEP2_ATTEMPTS == 10
MinElements == 5
MaxElements == 15
MinValue == 1
MaxValue == 100

\* lcm(1..15): the unit 1/Den represents every mean of up to 15 integers
Den == 8 * 9 * 5 * 7 * 11 * 13
\* math.isclose tolerances in units of 1e-10: rel_tol = 1e-09, abs_tol = 1e-9
RelTol == 10
AbsTolExplicit == 10
AbsTolDefault == 0

\* ------------------------------------------------------------- JSON values
\* a JSON value: null, a number w/Den + e*1e-10, a string (sequence of
\* characters) or a non-empty array
JNull == [t |-> "null", w |-> 0, e |-> 0, s |-> <<>>]
JNum(w, e) == [t |-> "num", w |-> w, e |-> e, s |-> <<>>]
JInt(n) == JNum(n * Den, 0)
JStr(s) == [t |-> "str", w |-> 0, e |-> 0, s |-> s]
JList == [t |-> "list", w |-> 0, e |-> 0, s |-> <<>>]

\* Python None, the value dict.get gives for an absent key
None == JNull

\* Python truthiness of a JSON value: None, 0, "" are falsy
Truthy(v) ==
    CASE v.t = "null" -> FALSE
      [] v.t = "num" -> ~(v.w = 0 /\ v.e = 0)
      [] v.t = "str" -> Len(v.s) > 0
      [] OTHER -> TRUE

Digits == <<"0", "1", "2", "3", "4", "5", "6", "7", "8", "9">>
DigitValue(c) == (CHOOSE i \in 1..10 : Digits[i] = c) - 1
IsDigit(c) == \E i \in 1..10 : Digits[i] = c

RECURSIVE ParseDigits(_)
ParseDigits(s) ==
    IF Len(s) = 0 THEN 0
    ELSE 10 * ParseDigits(SubSeq(s, 1, Len(s) - 1)) + DigitValue(s[Len(s)])

\* float(x): a number converts to itself, a string of decimal digits to its
\* value; any other string raises ValueError and an array TypeError.  (The
\* strings of the model are digit strings or contain a character no float
\* literal has.)
ToFloat(v) ==
    CASE v.t = "num" -> [ok |-> TRUE, w |-> v.w, e |-> v.e]
      [] v.t = "str" /\ Len(v.s) > 0 /\ (\A i \in 1..Len(v.s) : IsDigit(v.s[i])) ->
            [ok |-> TRUE, w |-> ParseDigits(v.s) * Den, e |-> 0]
      [] OTHER -> [ok |-> FALSE, w |-> 0, e |-> 0]

Abs(x) == IF x < 0 THEN -x ELSE x
Max2(a, b) == IF a >= b THEN a ELSE b

\* math.isclose(a, b, rel_tol, abs_tol) on converted numbers:
\* a == b, or |a-b| <= max(rel_tol * max(|a|,|b|), abs_tol).  Two numbers
\* with different w are at least 1/Den - (e-range)*1e-10 apart, far more than
\* any tolerance for |values| <= MaxValue; with equal w the difference is
\* |a.e - b.e| * 1e-10 and max(|a|,|b|) is |w|/Den.
IsClose(a, b, absTol) ==
    \/ (a.w = b.w /\ a.e = b.e)
    \/ /\ a.w = b.w
       /\ Abs(a.e - b.e) * Den <= Max2(RelTol * Abs(a.w), absTol * Den)

\* ------------------------------------------------------- statistics engine
RECURSIVE SumSeq(_)
SumSeq(s) == IF Len(s) = 0 THEN 0 ELSE s[1] + SumSeq(Tail(s))

Range(s) == {s[i] : i \in 1..Len(s)}
SetMin(S) == CHOOSE x \in S : \A y \in S : x <= y
SetMax(S) == CHOOSE x \in S : \A y \in S : x >= y

\* sorted(S) of a set of distinct integers, ascending
RECURSIVE SortedSet(_)
SortedSet(S) ==
    IF S = {} THEN <<>> ELSE <<SetMin(S)>> \o SortedSet(S \ {SetMin(S)})

\* Counter(numbers_y)[v]
Freq(numbers_y, v) == Cardinality({i \in 1..Len(numbers_y) : numbers_y[i] = v})

\* sorted(numbers_y), duplicates kept
RECURSIVE Repeat(_, _)
Repeat(v, n) == IF n = 0 THEN <<>> ELSE <<v>> \o Repeat(v, n - 1)
RECURSIVE Flatten(_, _)
Flatten(vals, numbers_y) ==
    IF Len(vals) = 0 THEN <<>>
    ELSE Repeat(vals[1], Freq(numbers_y, vals[1])) \o Flatten(Tail(vals), numbers_y)
Sorted(numbers_y) == Flatten(SortedSet(Range(numbers_y)), numbers_y)

\* statistics.median: the middle element for an odd count, the average of the
\* two middle elements for an even count, after sorting; in units of 1/Den
MedianMutUpperMiddle(numbers_y) ==
    LET srt == Sorted(numbers_y)
    IN  srt[Len(srt) \div 2 + 1] * Den
Median(numbers_y) ==
    LET srt == Sorted(numbers_y)
        n == Len(srt)
    IN  IF n % 2 = 1 THEN srt[(n + 1) \div 2] * Den
        ELSE ((srt[n \div 2] + srt[n \div 2 + 1]) * Den) \div 2

\* statistics.mean: the exact quotient sum/count, in units of 1/Den
Mean(numbers_y) == (SumSeq(numbers_y) * Den) \div Len(numbers_y)

\* every value whose frequency is the maximum frequency, ascending
ModesMutFirstOnly(numbers_y) ==
    LET max_freq == SetMax({Freq(numbers_y, v) : v \in Range(numbers_y)})
    IN  <<SetMin({v \in Range(numbers_y) : Freq(numbers_y, v) = max_freq})>>
Modes(numbers_y) ==
    LET max_freq == SetMax({Freq(numbers_y, v) : v \in Range(numbers_y)})
    IN  SortedSet({v \in Range(numbers_y) : Freq(numbers_y, v) = max_freq})

FloatOf(n) == [w |-> n * Den, e |-> 0]

\* calculate_statistics: the snapshot of an empty input has count 0, None
\* everywhere else and a key "mode"; a non-empty input gives floats and the
\* key "modes"
calculate_statistics(numbers_y) ==
    IF Len(numbers_y) = 0
    THEN [count |-> 0, minimum |-> None, maximum |-> None, mean |-> None,
          median |-> None, mode |-> None]
    ELSE [count |-> Len(numbers_y),
          minimum |-> FloatOf(SetMin(Range(numbers_y))),
          maximum |-> FloatOf(SetMax(Range(numbers_y))),
          mean |-> [w |-> Mean(numbers_y), e |-> 0],
          median |-> [w |-> Median(numbers_y), e |-> 0],
          modes |-> [i \in 1..Len(Modes(numbers_y)) |-> FloatOf(Modes(numbers_y)[i])]]

\* ------------------------------------------------------------------- state
VARIABLES
    challenges_data,  \* the in-memory store: secret key -> challenge
    req,              \* the request handled last
    response,         \* the response sent last
    pc,               \* concurrent model: each thread's position in step2
    frame,            \* concurrent model: each thread's local variables
    submissions,      \* history: well-formed submissions made to each key
    lastGood,         \* history: the latest in-budget submission passing all six checks
    pattern,          \* history: progress of a correct / incorrect / correct series
    compared,         \* history: submissions that went on to the comparison, per key
    sample,           \* calculate_statistics taken alone: its argument
    snapshot          \* calculate_statistics taken alone: its result

vars == <<challenges_data, req, response, pc, frame, submissions, lastGood,
          pattern, compared, sample, snapshot>>

\* uuid.uuid4().hex, shortened: the hex strings the model draws keys from
KeyList == << <<"a", "1">>, <<"b", "2">>, <<"c", "3">>, <<"d", "4">> >>
Keys == Range(KeyList)
KeySpace == {KeyList[i] : i \in 1..NumKeys}
\* a well-formed key no challenge is ever stored under
UnknownKey == <<"f", "f">>

\* the lists [random.randint(1, 100) for _ in range(random.randint(5, 15))]
\* the model draws: the documented example, and one of even length with
\* tied modes and a fractional median
DatasetList ==
    << <<10, 20, 15, 20, 25>>,
       <<4, 1, 3, 1, 4, 2>> >>
Datasets ==
    {d \in Range(DatasetList) :
        /\ Len(d) \in MinElements..MaxElements
        /\ \A i \in 1..Len(d) : d[i] \in MinValue..MaxValue}

\* request.args.get('email'): absent, empty or an address
Emails == {None, JStr(<<>>), JStr(<<"u", "@", "x">>)}

\* an optional stored payload: Python None, or the dict `data`
NoData == [some |-> FALSE, data |-> <<>>]
Some(data) == [some |-> TRUE, data |-> data]
\* truthiness of None / a dict
TruthyData(opt) == opt.some /\ DOMAIN opt.data # {}

\* ---------------------------------------------------------------- responses
Resp(status, body) == [status |-> status, body |-> body]
NoResponse == Resp(0, <<>>)
EmailRequiredResp == Resp(400, [error |-> "Email parameter is required"])
ChallengeResp(secret_key, numbers_y) ==
    Resp(200, [secret_key |-> secret_key, numbers |-> numbers_y])
InvalidJsonResp == Resp(400, [message |-> "Please try again!!! (Invalid JSON)"])
MalformedResp == Resp(400, [message |-> "Please try again!!! (Malformed request)"])
MissingFieldsResp == Resp(400, [message |-> "Please try again!!! (Missing fields)"])
InvalidKeyResp == Resp(400, [message |-> "Please try again!!! (Invalid secret_key)"])
LimitSuccessResp ==
    Resp(200, [message |-> "Your response has been submitted successfully",
               note |-> "Rate limit reached, but previous submission was correct."])
MaxAttemptsResp == Resp(429, [message |-> "Please try again!!! (Max attempts reached)"])
SuccessResp == Resp(200, [message |-> "Your response has been submitted successfully"])
TryAgainResp == Resp(400, [message |-> "Please try again!!!"])
\* an exception that leaves the view function: the framework answers 500
UnhandledResp == Resp(500, [error |-> "Internal Server Error"])

\* ------------------------------------------------------------ step 1: issue
NewChallengeMutCounted(email, numbers_y) ==
    [email |-> email,
     numbers_y |-> numbers_y,
     correct_stats |-> calculate_statistics(numbers_y),
     step2_attempts |-> 1,
     last_correct_submission_data |-> NoData]
NewChallenge(email, numbers_y) ==
    [email |-> email,
     numbers_y |-> numbers_y,
     correct_stats |-> calculate_statistics(numbers_y),
     step2_attempts |-> 0,
     last_correct_submission_data |-> NoData]

\* uuid4 is taken to return a key not in use: the code draws 122 random bits
\* and does not look the key up before storing under it (line 85)
uuid4MutReuse == Keys
uuid4 == Keys \ DOMAIN challenges_data

PutMutFreshStore(store, key, value) == [k \in {key} |-> value]
Put(store, key, value) ==
    [k \in DOMAIN store \cup {key} |-> IF k = key THEN value ELSE store[k]]

NoBody == [kind |-> "none", fields |-> <<>>]

\* --------------------------------------------------------- step 2: submit
\* A request body: bytes that do not parse as JSON ("unparseable"), a JSON
\* value that is no object, falsy ("falsy": null, 0, "", []) or truthy
\* ("nondict": a number, a string, a non-empty array), or a JSON object
\* ("object") whose members are `fields`.
FieldNames == {"count", "minimum", "maximum", "mean", "median", "mode"}

\* data.get(k)
Get(data, k) == IF k \in DOMAIN data THEN data[k] ELSE None

\* lines 102-118: request.get_json() and the seven data.get calls.  get_json
\* raises on an unparseable body and .get raises on a value that is no dict;
\* both are caught by the except clause.  `not data` holds of null, 0, "", []
\* and of the empty object.
ParseRequest(body) ==
    CASE body.kind = "unparseable" ->
            [response |-> MalformedResp, data |-> <<>>, secret_key |-> None,
             user_stats |-> [k \in FieldNames |-> None]]
      [] body.kind = "falsy" \/ (body.kind = "object" /\ DOMAIN body.fields = {}) ->
            [response |-> InvalidJsonResp, data |-> <<>>, secret_key |-> None,
             user_stats |-> [k \in FieldNames |-> None]]
      [] body.kind = "nondict" ->
            [response |-> MalformedResp, data |-> <<>>, secret_key |-> None,
             user_stats |-> [k \in FieldNames |-> None]]
      [] OTHER ->
            [response |-> NoResponse, data |-> body.fields,
             secret_key |-> Get(body.fields, "secret_key"),
             user_stats |-> [k \in FieldNames |-> Get(body.fields, k)]]

\* line 120
MissingFields(secret_key, user_stats) ==
    ~Truthy(secret_key) \/ ~(\A k \in FieldNames : user_stats[k] # None)

\* line 123: challenges_data.get(secret_key) raises TypeError on an
\* unhashable key (a JSON array) and gives None for a key not stored
Unhashable(secret_key) == secret_key.t = "list"
Stored(store, secret_key) == secret_key.t = "str" /\ secret_key.s \in DOMAIN store

\* line 129
LimitReachedMutUnlessSuccess(challenge_info) ==
    /\ challenge_info.step2_attempts >= MAX_STEP2_ATTEMPTS
    /\ ~challenge_info.last_correct_submission_data.some
LimitReachedMutEarly(challenge_info) ==
    challenge_info.step2_attempts >= MAX_STEP2_ATTEMPTS - 1
LimitReachedMutOffByOne(challenge_info) ==
    challenge_info.step2_attempts > MAX_STEP2_ATTEMPTS
LimitReached(challenge_info) ==
    challenge_info.step2_attempts >= MAX_STEP2_ATTEMPTS

\* lines 133-136
LimitResponseMutAlwaysReject(challenge_info) == MaxAttemptsResp
LimitResponse(challenge_info) ==
    IF TruthyData(challenge_info.last_correct_submission_data)
    THEN LimitSuccessResp
    ELSE MaxAttemptsResp

\* lines 148-172: the six checks in order, each appending to `errors` on a
\* mismatch.  float() raises on a non-numeric value, and the format {:.2f}
\* of the mean-mismatch message raises on a string; `raised` is whether any
\* of them does, in which case nothing after line 138 takes effect.
InModes(x, modes) == \E i \in DOMAIN modes : modes[i].w = x.w /\ modes[i].e = x.e

Mismatch(user_stats, correct_stats, k) ==
    CASE k = "count" ->
            ~(user_stats.count.t = "num" /\ user_stats.count.e = 0
              /\ user_stats.count.w = correct_stats.count * Den)
      [] k = "minimum" ->
            ~IsClose(ToFloat(user_stats.minimum), correct_stats.minimum, AbsTolDefault)
      [] k = "maximum" ->
            ~IsClose(ToFloat(user_stats.maximum), correct_stats.maximum, AbsTolDefault)
      [] k = "mean" ->
            ~IsClose(ToFloat(user_stats.mean), correct_stats.mean, AbsTolExplicit)
      [] k = "median" ->
            ~IsClose(ToFloat(user_stats.median), correct_stats.median, AbsTolExplicit)
      [] OTHER -> ~InModes(ToFloat(user_stats.mode), correct_stats.modes)

Raises(user_stats, correct_stats) ==
    \/ \E k \in FieldNames \ {"count"} : ~ToFloat(user_stats[k]).ok
    \/ (Mismatch(user_stats, correct_stats, "mean") /\ user_stats.mean.t = "str")

CheckOrder == <<"count", "minimum", "maximum", "mean", "median", "mode">>

ValidateMutFirstModeOnly(user_stats, correct_stats) ==
    LET first == [correct_stats EXCEPT !.modes = <<@[1]>>]
        errors == SelectSeq(CheckOrder, LAMBDA k : Mismatch(user_stats, first, k))
    IN  [raised |-> Raises(user_stats, correct_stats),
         errors |-> errors,
         valid_submission |-> errors = <<>> /\ ~Raises(user_stats, correct_stats)]
Validate(user_stats, correct_stats) ==
    LET errors == SelectSeq(CheckOrder,
                      LAMBDA k : Mismatch(user_stats, correct_stats, k))
    IN  [raised |-> Raises(user_stats, correct_stats),
         errors |-> errors,
         valid_submission |-> errors = <<>> /\ ~Raises(user_stats, correct_stats)]

\* line 138
CountAttemptMutSkipAfterSuccess(challenge_info) ==
    IF challenge_info.last_correct_submission_data.some THEN challenge_info
    ELSE [challenge_info EXCEPT !.step2_attempts = @ + 1]
CountAttempt(challenge_info) ==
    [challenge_info EXCEPT !.step2_attempts = @ + 1]

\* lines 175-185: record the payload of a valid submission; answer
RecordMutAlways(challenge_info, data, v) ==
    IF v.raised THEN challenge_info
    ELSE [challenge_info EXCEPT !.last_correct_submission_data = Some(data)]
RecordMutFirstWins(challenge_info, data, v) ==
    IF v.valid_submission /\ ~v.raised /\ ~challenge_info.last_correct_submission_data.some
    THEN [challenge_info EXCEPT !.last_correct_submission_data = Some(data)]
    ELSE challenge_info
Record(challenge_info, data, v) ==
    IF v.valid_submission /\ ~v.raised
    THEN [challenge_info EXCEPT !.last_correct_submission_data = Some(data)]
    ELSE challenge_info

VerdictResponse(v) ==
    CASE v.raised -> UnhandledResp
      [] v.valid_submission -> SuccessResp
      [] OTHER -> TryAgainResp

\* the whole handler as a function of the store and the request body:
\* the store it leaves, the response, and whether line 142 was reached
step2_submit_statistics(store, body) ==
    LET p == ParseRequest(body)
        same(r) == [challenges_data |-> store, response |-> r, compared |-> FALSE]
    IN  IF p.response.status # 0 THEN same(p.response)
        ELSE IF MissingFields(p.secret_key, p.user_stats) THEN same(MissingFieldsResp)
        ELSE IF Unhashable(p.secret_key) THEN same(UnhandledResp)
        ELSE IF ~Stored(store, p.secret_key) THEN same(InvalidKeyResp)
        ELSE LET key == p.secret_key.s
                 challenge_info == store[key]
             IN  IF LimitReached(challenge_info)
                 THEN same(LimitResponse(challenge_info))
                 ELSE LET counted == CountAttempt(challenge_info)
                          v == Validate(p.user_stats, counted.correct_stats)
                      IN  [challenges_data |->
                               [store EXCEPT ![key] = Record(counted, p.data, v)],
                           response |-> VerdictResponse(v),
                           compared |-> TRUE]

\* ------------------------------------------------------------ request bodies
RECURSIVE ToDigits(_)
ToDigits(n) ==
    IF n < 10 THEN <<Digits[n + 1]>> ELSE ToDigits(n \div 10) \o <<Digits[(n % 10) + 1]>>

\* the smallest e for which w/Den + e*1e-10 is not close to w/Den
BeyondTolerance(w) == (RelTol * w) \div Den + 1

\* a value of the dataset that is no mode, or past the maximum if all are
NonMode(numbers_y) ==
    LET others == Range(numbers_y) \ Range(Modes(numbers_y))
    IN  IF others = {} THEN SetMax(Range(numbers_y)) + 1 ELSE SetMin(others)

Restrict(f, S) == [k \in S |-> f[k]]

\* the six statistics a client may send for a dataset
ExactStats(numbers_y) ==
    LET gt == calculate_statistics(numbers_y)
    IN  [count |-> JInt(gt.count),
         minimum |-> JNum(gt.minimum.w, 0),
         maximum |-> JNum(gt.maximum.w, 0),
         mean |-> JNum(gt.mean.w, 0),
         median |-> JNum(gt.median.w, 0),
         mode |-> JNum(gt.modes[1].w, 0)]

Variants ==
    {"exact", "alt", "non_mode", "median_off", "min_far", "mean_text",
     "mean_str_off", "no_median", "null_mode"}

\* "exact": the ground truth; "alt": another correct payload (minimum off by
\* 1e-10, maximum as a digit string, the last tied mode); "non_mode",
\* "median_off", "min_far": one field wrong; "mean_text": a non-numeric mean;
\* "mean_str_off": a wrong mean sent as a digit string; "no_median",
\* "null_mode": a field absent, a field null
StatsVariant(numbers_y, v) ==
    LET ex == ExactStats(numbers_y)
        modes == Modes(numbers_y)
    IN  CASE v = "exact" -> ex
          [] v = "alt" ->
                [ex EXCEPT !.minimum = JNum(@.w, 1),
                           !.maximum = JStr(ToDigits(SetMax(Range(numbers_y)))),
                           !.mode = JInt(modes[Len(modes)])]
          [] v = "non_mode" -> [ex EXCEPT !.mode = JInt(NonMode(numbers_y))]
          [] v = "median_off" -> [ex EXCEPT !.median = JNum(@.w + Den, 0)]
          [] v = "min_far" -> [ex EXCEPT !.minimum = JNum(@.w, BeyondTolerance(@.w))]
          [] v = "mean_text" -> [ex EXCEPT !.mean = JStr(<<"a", "b", "c">>)]
          [] v = "mean_str_off" ->
                [ex EXCEPT !.mean = JStr(ToDigits(SetMax(Range(numbers_y)) + 1))]
          [] v = "no_median" -> Restrict(ex, FieldNames \ {"median"})
          [] OTHER -> [ex EXCEPT !.mode = JNull]

StatsTable == [d \in Datasets |-> [v \in Variants |-> StatsVariant(d, v)]]

\* the JSON object with the given secret_key (None: no such member) and statistics
Payload(secret_key, stats) ==
    [k \in (IF secret_key = None THEN {} ELSE {"secret_key"}) \cup DOMAIN stats |->
        IF k = "secret_key" THEN secret_key ELSE stats[k]]

ObjectBody(fields) == [kind |-> "object", fields |-> fields]

\* the bodies that name no stored challenge: an unknown key (complete, and
\* with a null field), no key, an empty key, an unhashable key; and the
\* bodies that are no JSON object with members
OtherBodies ==
    {ObjectBody(Payload(JStr(UnknownKey), StatsTable[DatasetList[1]]["exact"])),
     ObjectBody(Payload(JStr(UnknownKey), StatsTable[DatasetList[1]]["null_mode"])),
     ObjectBody(Payload(None, StatsTable[DatasetList[1]]["exact"])),
     ObjectBody(Payload(JStr(<<>>), StatsTable[DatasetList[1]]["exact"])),
     ObjectBody(Payload(JList, StatsTable[DatasetList[1]]["exact"])),
     [kind |-> "unparseable", fields |-> <<>>],
     [kind |-> "falsy", fields |-> <<>>],
     [kind |-> "nondict", fields |-> <<>>],
     ObjectBody(<<>>)}

\* the body submitted for a stored key: a variant of its own dataset
KeyBodyTable ==
    [k \in Keys |-> [d \in Datasets |-> [v \in Variants |->
        ObjectBody(Payload(JStr(k), StatsTable[d][v]))]]]
KeyBody(store, k, v) == KeyBodyTable[k][store[k].numbers_y][v]
KeyVariants == Variants \ {"null_mode"}

\* ------------------------------------------------------- history variables
\* the key of a stored challenge a body is a well-formed submission to: it
\* carries that key and all six fields, none null ({} if there is none)
Target(store, body) ==
    IF body.kind = "object" /\ (\A f \in FieldNames : Get(body.fields, f) # None)
    THEN {k \in DOMAIN store : Get(body.fields, "secret_key") = JStr(k)}
    ELSE {}

\* the six checks of the specification on a payload against a ground truth:
\* count equal; minimum, maximum, mean and median numeric and approximately
\* equal; mode numeric and equal to a member of modes
PassesAllSix(fields, gt) ==
    /\ fields["count"] = JInt(gt.count)
    /\ \A f \in {"minimum", "maximum", "mean", "median", "mode"} : ToFloat(fields[f]).ok
    /\ IsClose(ToFloat(fields["minimum"]), gt.minimum, AbsTolDefault)
    /\ IsClose(ToFloat(fields["maximum"]), gt.maximum, AbsTolDefault)
    /\ IsClose(ToFloat(fields["mean"]), gt.mean, AbsTolExplicit)
    /\ IsClose(ToFloat(fields["median"]), gt.median, AbsTolExplicit)
    /\ \E i \in DOMAIN gt.modes :
          gt.modes[i].w = ToFloat(fields["mode"]).w /\ gt.modes[i].e = ToFloat(fields["mode"]).e

NoPattern == [stage |-> 0, key |-> <<>>, a |-> <<>>]

\* stage 1: a correct payload A was just submitted to key; stage 2: then an
\* incorrect B; stage 3: then a correct C other than A
NextPattern(k, pass, fields) ==
    IF pass
    THEN IF pattern.stage = 2 /\ pattern.key = k /\ pattern.a # fields
         THEN [stage |-> 3, key |-> k, a |-> pattern.a]
         ELSE [stage |-> 1, key |-> k, a |-> fields]
    ELSE IF pattern.stage = 1 /\ pattern.key = k
         THEN [pattern EXCEPT !.stage = 2]
         ELSE NoPattern

\* how a submission moves the histories: `body` arrives with `store` in
\* place.  A well-formed submission to a stored key counts; one made within
\* the budget (fewer than MAX_STEP2_ATTEMPTS before it) that passes all six
\* checks becomes the latest good one.
History(store, body) ==
    LET tgt == Target(store, body)
    IN  IF tgt = {}
        THEN [submissions |-> submissions, lastGood |-> lastGood, pattern |-> NoPattern]
        ELSE LET k == CHOOSE k \in tgt : TRUE
                 inBudget == submissions[k] < MAX_STEP2_ATTEMPTS
                 pass == PassesAllSix(body.fields, store[k].correct_stats)
             IN  [submissions |-> [submissions EXCEPT ![k] = @ + 1],
                  lastGood |-> IF inBudget /\ pass
                               THEN [lastGood EXCEPT ![k] = Some(body.fields)]
                               ELSE lastGood,
                  pattern |-> IF inBudget THEN NextPattern(k, pass, body.fields)
                              ELSE NoPattern]

\* ------------------------------------------------------------------ actions
\* no call of calculate_statistics has returned yet
NotComputed == [pending |-> TRUE]

Idle == [kind |-> "idle", key |-> <<>>, data |-> <<>>, user_stats |-> <<>>,
         attempts |-> 0]

Init ==
    /\ challenges_data = <<>>
    /\ req = [op |-> "none", email |-> None, body |-> NoBody]
    /\ response = NoResponse
    /\ pc = [t \in 1..NumThreads |-> "idle"]
    /\ frame = [t \in 1..NumThreads |-> Idle]
    /\ submissions = [k \in Keys |-> 0]
    /\ lastGood = [k \in Keys |-> NoData]
    /\ pattern = NoPattern
    /\ compared = [k \in Keys |-> 0]
    /\ sample = <<>>
    /\ snapshot = NotComputed

\* GET /challenge/step1 without a usable email parameter (lines 73-75)
Step1NoEmail(email) ==
    /\ ~Truthy(email)
    /\ req' = [op |-> "step1", email |-> email, body |-> NoBody]
    /\ response' = EmailRequiredResp
    /\ pattern' = NoPattern
    /\ UNCHANGED <<challenges_data, pc, frame, submissions, lastGood, compared,
                   sample, snapshot>>

\* GET /challenge/step1 (lines 77-98)
Step1Issue(email, secret_key, numbers_y) ==
    /\ Truthy(email)
    /\ secret_key \in uuid4
    /\ challenges_data' = Put(challenges_data, secret_key, NewChallenge(email, numbers_y))
    /\ req' = [op |-> "step1", email |-> email, body |-> NoBody]
    /\ response' = ChallengeResp(secret_key, numbers_y)
    /\ pattern' = NoPattern
    /\ UNCHANGED <<pc, frame, submissions, lastGood, compared, sample, snapshot>>

\* POST /challenge/step2, handled from start to end (lines 102-185)
Step2(body) ==
    \E out \in {step2_submit_statistics(challenges_data, body)},
       h \in {History(challenges_data, body)} :
        /\ \A k \in Keys : h.submissions[k] <= MAX_STEP2_ATTEMPTS + MaxExtra
        /\ challenges_data' = out.challenges_data
        /\ req' = [op |-> "step2", email |-> None, body |-> body]
        /\ response' = out.response
        /\ submissions' = h.submissions
        /\ lastGood' = h.lastGood
        /\ pattern' = h.pattern
        /\ compared' = IF out.compared
                       THEN [compared EXCEPT ![body.fields["secret_key"].s] = @ + 1]
                       ELSE compared
        /\ UNCHANGED <<pc, frame, sample, snapshot>>

Next ==
    \/ \E email \in Emails : Step1NoEmail(email)
    \/ \E email \in Emails, secret_key \in KeySpace, numbers_y \in Datasets :
          Step1Issue(email, secret_key, numbers_y)
    \/ \E k \in DOMAIN challenges_data, v \in KeyVariants :
          Step2(KeyBody(challenges_data, k, v))
    \/ \E body \in OtherBodies : Step2(body)

Spec == Init /\ [][Next]_vars

\* ------------------------------------------------- concurrent submissions
\* The handler runs on a thread per request with no lock around the store.
\* Its steps are the accesses to the shared store: the lookup (line 123),
\* the limit check (129-136), the read and the write of
\* step2_attempts += 1 (138), and the conditional write of
\* last_correct_submission_data (177); the comparison between them touches
\* only the thread's own variables and the immutable correct_stats.
Threads == 1..NumThreads
ConcVariants == {"exact", "non_mode"}

\* lines 102-126: parse, check the fields, look the challenge up
Begin(t, body) ==
    /\ pc[t] = "idle"
    /\ \E p \in {ParseRequest(body)} :
          IF p.response.status # 0
          THEN response' = p.response /\ UNCHANGED <<pc, frame>>
          ELSE IF MissingFields(p.secret_key, p.user_stats)
          THEN response' = MissingFieldsResp /\ UNCHANGED <<pc, frame>>
          ELSE IF Unhashable(p.secret_key)
          THEN response' = UnhandledResp /\ UNCHANGED <<pc, frame>>
          ELSE IF ~Stored(challenges_data, p.secret_key)
          THEN response' = InvalidKeyResp /\ UNCHANGED <<pc, frame>>
          ELSE /\ pc' = [pc EXCEPT ![t] = "limit"]
               /\ frame' = [frame EXCEPT ![t] =
                      [kind |-> "request", key |-> p.secret_key.s, data |-> p.data,
                       user_stats |-> p.user_stats, attempts |-> 0]]
               /\ UNCHANGED response
    /\ UNCHANGED <<challenges_data, req, submissions, lastGood, pattern, compared,
                   sample, snapshot>>

\* lines 129-136
Limit(t) ==
    /\ pc[t] = "limit"
    /\ IF LimitReached(challenges_data[frame[t].key])
       THEN /\ response' = LimitResponse(challenges_data[frame[t].key])
            /\ pc' = [pc EXCEPT ![t] = "idle"]
            /\ frame' = [frame EXCEPT ![t] = Idle]
       ELSE /\ pc' = [pc EXCEPT ![t] = "load"]
            /\ UNCHANGED <<response, frame>>
    /\ UNCHANGED <<challenges_data, req, submissions, lastGood, pattern, compared,
                   sample, snapshot>>

\* line 138, the read of challenge_info["step2_attempts"]
Load(t) ==
    /\ pc[t] = "load"
    /\ frame' = [frame EXCEPT ![t].attempts = challenges_data[frame[t].key].step2_attempts]
    /\ pc' = [pc EXCEPT ![t] = "store"]
    /\ UNCHANGED <<challenges_data, req, response, submissions, lastGood, pattern,
                   compared, sample, snapshot>>

\* line 138, the write of the incremented value
Store(t) ==
    /\ pc[t] = "store"
    /\ challenges_data' = [challenges_data EXCEPT
          ![frame[t].key] = CountAttempt([@ EXCEPT !.step2_attempts = frame[t].attempts])]
    /\ pc' = [pc EXCEPT ![t] = "compare"]
    /\ UNCHANGED <<req, response, frame, submissions, lastGood, pattern, compared,
                   sample, snapshot>>

\* lines 142-185: compare, record a valid payload, answer
Finish(t) ==
    /\ pc[t] = "compare"
    /\ \E v \in {Validate(frame[t].user_stats,
                          challenges_data[frame[t].key].correct_stats)} :
          /\ challenges_data' = [challenges_data EXCEPT
                ![frame[t].key] = Record(@, frame[t].data, v)]
          /\ response' = VerdictResponse(v)
    /\ compared' = [compared EXCEPT ![frame[t].key] = @ + 1]
    /\ pc' = [pc EXCEPT ![t] = "idle"]
    /\ frame' = [frame EXCEPT ![t] = Idle]
    /\ UNCHANGED <<req, submissions, lastGood, pattern, sample, snapshot>>

ConcNext ==
    \/ \E email \in Emails, secret_key \in KeySpace, numbers_y \in Datasets :
          Step1Issue(email, secret_key, numbers_y)
    \/ \E t \in Threads, k \in DOMAIN challenges_data, v \in ConcVariants :
          Begin(t, KeyBody(challenges_data, k, v))
    \/ \E t \in Threads : Limit(t)
    \/ \E t \in Threads : Load(t)
    \/ \E t \in Threads : Store(t)
    \/ \E t \in Threads : Finish(t)

ConcSpec == Init /\ [][ConcNext]_vars

\* ------------------------------------------------ several challenges at once
\* The sequential service with NumChallenges keys to issue under and at most
\* MaxShared submissions to each.
ChallengeKeys == {KeyList[i] : i \in 1..NumChallenges}
SharedVariants == {"exact", "non_mode", "mean_text", "no_median"}
\* bodies naming no stored challenge: an unknown key, an unhashable key
SharedOther ==
    {ObjectBody(Payload(JStr(UnknownKey), StatsTable[DatasetList[1]]["exact"])),
     ObjectBody(Payload(JList, StatsTable[DatasetList[1]]["exact"]))}

MultiNext ==
    \/ \E email \in Emails, secret_key \in ChallengeKeys, numbers_y \in Datasets :
          Step1Issue(email, secret_key, numbers_y)
    \/ \E k \in DOMAIN challenges_data, v \in SharedVariants :
          submissions[k] < MaxShared /\ Step2(KeyBody(challenges_data, k, v))
    \/ \E body \in SharedOther : Step2(body)

MultiSpec == Init /\ [][MultiNext]_vars

\* ------------------------------------------- calculate_statistics taken alone
SampleValues == (0 - MaxSampleValue)..MaxSampleValue
Samples == UNION {[1..n -> SampleValues] : n \in 0..MaxSampleLen}

StatsInit ==
    /\ challenges_data = <<>>
    /\ req = [op |-> "none", email |-> None, body |-> NoBody]
    /\ response = NoResponse
    /\ pc = [t \in 1..NumThreads |-> "idle"]
    /\ frame = [t \in 1..NumThreads |-> Idle]
    /\ submissions = [k \in Keys |-> 0]
    /\ lastGood = [k \in Keys |-> NoData]
    /\ pattern = NoPattern
    /\ compared = [k \in Keys |-> 0]
    /\ sample \in Samples
    /\ snapshot = NotComputed

\* a call calculate_statistics(sample) returns (lines 31-67)
Compute ==
    /\ snapshot = NotComputed
    /\ snapshot' = calculate_statistics(sample)
    /\ UNCHANGED <<challenges_data, req, response, pc, frame, submissions, lastGood,
                   pattern, compared, sample>>

StatsNext == Compute

StatsSpec == StatsInit /\ [][StatsNext]_vars

\* ================================================================== claims
Attempts(k) == challenges_data[k].step2_attempts
LastCorrect(k) == challenges_data[k].last_correct_submission_data
Live == DOMAIN challenges_data
\* the last request was a well-formed submission to stored key k
SubmittedTo(k) == req.op = "step2" /\ k \in Target(challenges_data, req.body)

\* C1 -- attempt counting: after k < MAX_STEP2_ATTEMPTS well-formed
\* submissions to a challenge (all six fields, its key), step2_attempts is k,
\* whatever mix of correct and incorrect submissions was made.
C1_AttemptCounting ==
    \A k \in Live : submissions[k] < MAX_STEP2_ATTEMPTS => Attempts(k) = submissions[k]

\* nine submissions, a correct one among them and an incorrect one last
C1_Witness ==
    \E k \in Live :
        /\ submissions[k] = MAX_STEP2_ATTEMPTS - 1
        /\ Attempts(k) = MAX_STEP2_ATTEMPTS - 1
        /\ lastGood[k].some
        /\ SubmittedTo(k) /\ response = TryAgainResp

\* C2 -- exhaustion: once MAX_STEP2_ATTEMPTS submissions were made to a
\* challenge and none was correct, step2_attempts stays at MAX_STEP2_ATTEMPTS
\* and every further well-formed submission to the key is answered 429.
C2_Exhaustion ==
    \A k \in Live :
        (submissions[k] >= MAX_STEP2_ATTEMPTS /\ ~lastGood[k].some) =>
            /\ Attempts(k) = MAX_STEP2_ATTEMPTS
            /\ (submissions[k] > MAX_STEP2_ATTEMPTS /\ SubmittedTo(k)) =>
                  (response = MaxAttemptsResp /\ response.status = 429)

\* the second submission after exhaustion, a payload that passes all six checks
C2_Witness ==
    \E k \in Live :
        /\ submissions[k] > MAX_STEP2_ATTEMPTS + 1
        /\ ~lastGood[k].some
        /\ SubmittedTo(k)
        /\ PassesAllSix(req.body.fields, challenges_data[k].correct_stats)
        /\ response = MaxAttemptsResp

C4_LimitWithSuccess ==
    [][\A k \in Live :
          (/\ Attempts(k) >= MAX_STEP2_ATTEMPTS
           /\ LastCorrect(k).some
           /\ submissions'[k] = submissions[k] + 1) =>
              /\ response' = LimitSuccessResp
              /\ response'.status = 200 /\ "note" \in DOMAIN response'.body
              /\ challenges_data'[k] = challenges_data[k]]_vars

C4_Witness ==
    \E k \in Live :
        /\ SubmittedTo(k)
        /\ submissions[k] > MAX_STEP2_ATTEMPTS
        /\ Attempts(k) = MAX_STEP2_ATTEMPTS
        /\ response = LimitSuccessResp

\* C5 -- rejected before counting: a submission (a JSON object with members)
\* whose secret_key is absent or empty, or one of whose six fields is absent
\* or null, is answered with the missing-fields 400, whatever its key; one
\* with all fields whose key matches no stored challenge is answered with the
\* unknown-key 400; neither changes any challenge.
KeyAbsent(fields) ==
    Get(fields, "secret_key") = None \/ Get(fields, "secret_key") = JStr(<<>>)
FieldAbsent(fields) == \E f \in FieldNames : Get(fields, f) = None

C5_RejectedBeforeCounting ==
    [][(req'.op = "step2" /\ req'.body.kind = "object" /\ DOMAIN req'.body.fields # {}) =>
          LET fields == req'.body.fields
              missing == KeyAbsent(fields) \/ FieldAbsent(fields)
              unknown == ~missing /\ ~\E k \in Live : fields["secret_key"] = JStr(k)
          IN  /\ missing => (response' = MissingFieldsResp
                             /\ challenges_data' = challenges_data)
              /\ unknown => (response' = InvalidKeyResp
                             /\ challenges_data' = challenges_data)]_vars

\* C6 -- attempt cap under concurrency: in every reachable state of the
\* concurrent handler step2_attempts <= MAX_STEP2_ATTEMPTS, and no two
\* requests in flight for a key are both past the limit check when one
\* attempt remains.
PastLimit(k) == {t \in Threads : pc[t] \in {"load", "store"} /\ frame[t].key = k}

C6_AttemptCap ==
    \A k \in Live :
        /\ Attempts(k) <= MAX_STEP2_ATTEMPTS
        /\ Attempts(k) = MAX_STEP2_ATTEMPTS - 1 => Cardinality(PastLimit(k)) <= 1

\* C7 -- exact counting under concurrency: once every request has
\* completed, step2_attempts is the number of submissions that were
\* compared, and never more than MAX_STEP2_ATTEMPTS are compared.
C7_ExactCounting ==
    \A k \in Live :
        /\ compared[k] <= MAX_STEP2_ATTEMPTS
        /\ (\A t \in Threads : pc[t] = "idle") => Attempts(k) = compared[k]

\* C8 -- verdict: a submission that reaches the comparison is answered with
\* the success exactly when it passes all six checks against the challenge's
\* ground truth, any tied mode being accepted; for dataset [10,20,15,20,25]
\* the payload 5, 10, 25, 18, 20, 20 succeeds and the same with mode 15 fails.
ExampleDataset == <<10, 20, 15, 20, 25>>
ExampleStats ==
    [count |-> JInt(5), minimum |-> JInt(10), maximum |-> JInt(25),
     mean |-> JInt(18), median |-> JInt(20), mode |-> JInt(20)]
StatsOf(fields) == [f \in FieldNames |-> fields[f]]

C9_HandledOutcome ==
    req.op = "step2" =>
        response \in {InvalidJsonResp, MalformedResp, MissingFieldsResp, InvalidKeyResp,
                      LimitSuccessResp, MaxAttemptsResp, SuccessResp, TryAgainResp}

\* C10 -- no response reveals ground truth: the issuance response carries
\* the secret key and the dataset only, and every submission that fails the
\* comparison gets the one fixed failure response, whichever field is wrong
\* and whatever the ground truth is.
C10_NoGroundTruth ==
    [][/\ (req'.op = "step1" /\ response'.status = 200) =>
              DOMAIN response'.body = {"secret_key", "numbers"}
       /\ \A k \in Live :
              (/\ submissions[k] < MAX_STEP2_ATTEMPTS
               /\ submissions'[k] = submissions[k] + 1
               /\ ~PassesAllSix(req'.body.fields, challenges_data[k].correct_stats)) =>
                  response' = TryAgainResp]_vars

\* C11 -- key uniqueness: an issuance stores under a key no live challenge
\* has, the store grows by exactly that key, and every challenge stored
\* before is still there, unchanged; so N issuances leave N challenges with
\* pairwise distinct keys.
Issued == req.op = "step1" /\ response.status = 200

KthSmallest(s, k) ==
    CHOOSE v \in Range(s) :
        /\ Cardinality({i \in 1..Len(s) : s[i] < v}) < k
        /\ k <= Cardinality({i \in 1..Len(s) : s[i] <= v})
Computed == snapshot # NotComputed

\* C12 -- for every non-empty list, count is its length, minimum <= every
\* element <= maximum, median is the middle element of the sorted list for an
\* odd count and the average of the two middle elements for an even count,
\* and minimum <= median <= maximum.
C12_MinMaxMedian ==
    (Computed /\ Len(sample) > 0) =>
        LET n == Len(sample)
        IN  /\ snapshot.count = n
            /\ \A i \in 1..n :
                  /\ snapshot.minimum.w <= sample[i] * Den
                  /\ sample[i] * Den <= snapshot.maximum.w
            /\ snapshot.minimum.e = 0 /\ snapshot.maximum.e = 0 /\ snapshot.median.e = 0
            /\ IF n % 2 = 1
               THEN snapshot.median.w = KthSmallest(sample, (n + 1) \div 2) * Den
               ELSE 2 * snapshot.median.w =
                       (KthSmallest(sample, n \div 2)
                        + KthSmallest(sample, n \div 2 + 1)) * Den
            /\ snapshot.minimum.w <= snapshot.median.w
            /\ snapshot.median.w <= snapshot.maximum.w

\* an even count whose two middle elements differ by an odd amount
C12_Witness ==
    /\ Computed
    /\ Len(sample) = 4
    /\ snapshot.median.w % Den # 0
    /\ snapshot.minimum.w < 0

\* C13 -- for every non-empty list, modes is non-empty, strictly ascending,
\* and holds exactly the values whose frequency is the maximum frequency.
MostFrequent(s) ==
    {v \in Range(s) : \A u \in Range(s) : Freq(s, v) >= Freq(s, u)}

C13_Modes ==
    (Computed /\ Len(sample) > 0) =>
        LET modes == snapshot.modes
        IN  /\ Len(modes) >= 1
            /\ \A i \in 1..(Len(modes) - 1) : modes[i].w < modes[i + 1].w
            /\ \A i \in 1..Len(modes) : modes[i].e = 0
            /\ {modes[i].w : i \in 1..Len(modes)} =
                  {v * Den : v \in MostFrequent(sample)}

\* two tied modes and a value that is no mode
C13_Witness ==
    /\ Computed
    /\ Len(sample) > 0
    /\ Len(snapshot.modes) = 2
    /\ Cardinality(Range(sample)) = 3

\* C14 -- attempt budget boundary: a well-formed submission arriving with
\* step2_attempts < MAX_STEP2_ATTEMPTS is compared; one arriving with
\* step2_attempts = MAX_STEP2_ATTEMPTS - 1 brings it to MAX_STEP2_ATTEMPTS and
\* is recorded if it passes; one arriving with step2_attempts >=
\* MAX_STEP2_ATTEMPTS is answered without comparison; so exactly the first
\* MAX_STEP2_ATTEMPTS submissions are compared.
C14_BudgetBoundary ==
    [][\A k \in Live :
          submissions'[k] = submissions[k] + 1 =>
              /\ Attempts(k) < MAX_STEP2_ATTEMPTS => compared'[k] = compared[k] + 1
              /\ Attempts(k) = MAX_STEP2_ATTEMPTS - 1 =>
                    /\ challenges_data'[k].step2_attempts = MAX_STEP2_ATTEMPTS
                    /\ PassesAllSix(req'.body.fields, challenges_data[k].correct_stats) =>
                          challenges_data'[k].last_correct_submission_data =
                              Some(req'.body.fields)
              /\ Attempts(k) >= MAX_STEP2_ATTEMPTS =>
                    /\ compared'[k] = compared[k]
                    /\ response' \in {LimitSuccessResp, MaxAttemptsResp}
              /\ compared'[k] = IF submissions'[k] <= MAX_STEP2_ATTEMPTS
                                THEN submissions'[k] ELSE MAX_STEP2_ATTEMPTS]_vars

\* the last submission of the budget was correct and is the recorded one
C14_Witness ==
    \E k \in Live :
        /\ SubmittedTo(k)
        /\ submissions[k] = MAX_STEP2_ATTEMPTS
        /\ compared[k] = MAX_STEP2_ATTEMPTS
        /\ Attempts(k) = MAX_STEP2_ATTEMPTS
        /\ response = SuccessResp
        /\ LastCorrect(k) = Some(req.body.fields)

\* C15 -- a submission that is compared and found incorrect changes only
\* step2_attempts, by plus one: last_correct_submission_data and every other
\* field of the challenge keep their values, and the response is the failure
\* response, status 400.
ComparedIncorrect(k) ==
    /\ submissions[k] < MAX_STEP2_ATTEMPTS
    /\ submissions'[k] = submissions[k] + 1
    /\ ~PassesAllSix(req'.body.fields, challenges_data[k].correct_stats)

C15_IncorrectOnlyCounts ==
    [][\A k \in Live :
          ComparedIncorrect(k) =>
              /\ challenges_data'[k] =
                    [challenges_data[k] EXCEPT !.step2_attempts = @ + 1]
              /\ response'.status = 400
              /\ response'.body = [message |-> "Please try again!!!"]]_vars

\* C16 -- every stored challenge has a dataset of MinElements..MaxElements
\* integers in MinValue..MaxValue and the statistics of that dataset as its
\* correct_stats; it is created with step2_attempts = 0 and no recorded
\* payload; and no step changes its email, numbers_y or correct_stats.
WellFormedChallenge(c) ==
    /\ Len(c.numbers_y) \in MinElements..MaxElements
    /\ \A i \in 1..Len(c.numbers_y) : c.numbers_y[i] \in MinValue..MaxValue
    /\ c.correct_stats = calculate_statistics(c.numbers_y)
    /\ c.correct_stats.count = Len(c.numbers_y)
    /\ c.step2_attempts >= 0

C16_StoredChallenge ==
    [][/\ \A k \in DOMAIN challenges_data' : WellFormedChallenge(challenges_data'[k])
       /\ \A k \in DOMAIN challenges_data' \ DOMAIN challenges_data :
             /\ challenges_data'[k].step2_attempts = 0
             /\ challenges_data'[k].last_correct_submission_data = NoData
       /\ \A k \in DOMAIN challenges_data :
             /\ k \in DOMAIN challenges_data'
             /\ challenges_data'[k].email = challenges_data[k].email
             /\ challenges_data'[k].numbers_y = challenges_data[k].numbers_y
             /\ challenges_data'[k].correct_stats = challenges_data[k].correct_stats]_vars

\* a challenge over the six-element dataset after counted attempts and a
\* recorded success
C16_Witness ==
    \E k \in Live :
        /\ SubmittedTo(k)
        /\ Attempts(k) >= 2
        /\ LastCorrect(k).some
        /\ Len(challenges_data[k].numbers_y) = 6
        /\ WellFormedChallenge(challenges_data[k])

\* C17 -- empty-input policy: calculate_statistics of the empty list returns
\* count 0, with minimum, maximum, mean and median absent, an empty modes
\* collection, and the field names of a snapshot of a non-empty list.
SnapshotFields == {"count", "minimum", "maximum", "mean", "median", "modes"}

C17_EmptyInput ==
    (Computed /\ sample = <<>>) =>
        /\ snapshot.count = 0
        /\ snapshot.minimum = None /\ snapshot.maximum = None
        /\ snapshot.mean = None /\ snapshot.median = None
        /\ DOMAIN snapshot = SnapshotFields
        /\ snapshot.modes = <<>>

\* C18 -- recorded successes are genuine: a stored
\* last_correct_submission_data carries the key it is stored under, passes all
\* six checks against that challenge's correct_stats, and its challenge has
\* step2_attempts >= 1.
C18_GenuineSuccess ==
    \A k \in Live :
        LastCorrect(k).some =>
            /\ Get(LastCorrect(k).data, "secret_key") = JStr(k)
            /\ PassesAllSix(LastCorrect(k).data, challenges_data[k].correct_stats)
            /\ Attempts(k) >= 1

\* a recorded success that outlived a later incorrect submission
C18_Witness ==
    \E k \in Live :
        /\ LastCorrect(k).some
        /\ SubmittedTo(k)
        /\ response = TryAgainResp
        /\ LastCorrect(k).data # req.body.fields

\* C19 -- frozen after the limit: once step2_attempts has reached
\* MAX_STEP2_ATTEMPTS no step changes any field of the challenge, and a
\* well-formed submission to it is answered by the recorded success alone:
\* 200 with the note if there is one, 429 if not, whatever it submits.
C19_FrozenAfterLimit ==
    [][\A k \in Live :
          Attempts(k) >= MAX_STEP2_ATTEMPTS =>
              /\ k \in DOMAIN challenges_data'
              /\ challenges_data'[k] = challenges_data[k]
              /\ submissions'[k] = submissions[k] + 1 =>
                    response' = IF LastCorrect(k).some
                                THEN LimitSuccessResp
                                ELSE MaxAttemptsResp]_vars

\* a correct payload, other than the recorded one, submitted after the limit
C19_Witness ==
    \E k \in Live :
        /\ SubmittedTo(k)
        /\ submissions[k] > MAX_STEP2_ATTEMPTS
        /\ PassesAllSix(req.body.fields, challenges_data[k].correct_stats)
        /\ LastCorrect(k).some
        /\ LastCorrect(k).data # req.body.fields
        /\ response = LimitSuccessResp

\* C20 -- isolation between challenges: a submission changes at most
\* step2_attempts and last_correct_submission_data of the challenge stored
\* under the key it names, and no other challenge; an issuance adds one
\* challenge and leaves every stored challenge unchanged.
NamedKey(body) == Get(body.fields, "secret_key")

C20_Isolation ==
    [][/\ req'.op = "step2" =>
             /\ DOMAIN challenges_data' = DOMAIN challenges_data
             /\ \A k \in Live :
                   /\ NamedKey(req'.body) # JStr(k) =>
                         challenges_data'[k] = challenges_data[k]
                   /\ challenges_data'[k] =
                         [challenges_data[k] EXCEPT
                             !.step2_attempts = challenges_data'[k].step2_attempts,
                             !.last_correct_submission_data =
                                 challenges_data'[k].last_correct_submission_data]
       /\ req'.op = "step1" =>
             /\ Cardinality(DOMAIN challenges_data' \ DOMAIN challenges_data) =
                   IF response'.status = 200 THEN 1 ELSE 0
             /\ \A k \in Live :
                   k \in DOMAIN challenges_data'
                   /\ challenges_data'[k] = challenges_data[k]]_vars

\* a success recorded for one challenge while another holds a counted
\* attempt and no success
C20_Witness ==
    \E k \in Live, other \in Live :
        /\ k # other
        /\ SubmittedTo(k)
        /\ response = SuccessResp
        /\ LastCorrect(k) = Some(req.body.fields)
        /\ Attempts(other) >= 1
        /\ ~LastCorrect(other).some

====
